---------------------------- MODULE Spec2Model ----------------------------
(***************************************************************************)
(* Model of the missing-tag audit scripts.                                 *)
(*                                                                         *)
(*   specific_tags_are_not_set_aws_resources_per_region_excel.py  (CSV)    *)
(*   specific_tags_are_not_set_aws_resources_per_region.py    (console)    *)
(*   specific_tags_are_not_set_aws_resources_advanced_analysis.py          *)
(*                                                                         *)
(* Text is modelled as a sequence of one-character strings, so that        *)
(* strip() and ', '.join() are computed and not assumed.  Tag names are    *)
(* abbreviated to their initial: Environment = <<"E">>, Owner = <<"O">>,   *)
(* Project = <<"P">>.                                                      *)
(***************************************************************************)
EXTENDS Naturals, Sequences, FiniteSets, Bags, TLC

VARIABLES
    file,           \* required_tags.txt: whether it exists, and its lines
    provider,       \* what the AWS account answers to each call of this run
    max_workers,    \* ThreadPoolExecutor(max_workers=...)
    pc,             \* where main() stands
    required_tags,  \* main(): required_tags
    account_id,     \* main(): account_id
    regions,        \* main(): regions
    futures,        \* main(): futures, one record per submitted task
    work_queue,     \* the executor's queue of work items not yet picked up
    yielded,        \* futures as_completed() has already handed to the loop
    all_resources,  \* main(): all_resources
    csvfile,        \* the exported file: NoFile, or its rows
    calls,          \* listing calls the provider has received, per scope
    resource_tags,  \* check_missing_tags(): argument resource_tags
    missing,        \* check_missing_tags(): the value returned
    console,        \* the console script: where it stands, the lines printed
    analysis        \* the analysis script: where it stands, rows and tables

vars == <<file, provider, max_workers, pc, required_tags, account_id, regions,
          futures, work_queue, yielded, all_resources, csvfile, calls,
          resource_tags, missing, console, analysis>>

---------------------------------------------------------------------------
(* Bounds of the model.                                                    *)

MaxLines == 2       \* lines in required_tags.txt
MaxTags == 2        \* tags on one resource
MaxRegions == 3     \* regions describe_regions returns
MaxWorkers == 2     \* largest worker-pool cap tried
MaxResources == 2   \* resources in the account scanned by one run
MaxRows == 3        \* rows of the file the analysis script reads

---------------------------------------------------------------------------
(* Text.                                                                   *)

Range(s) == {s[i] : i \in DOMAIN s}

Whitespace == {" "}

RECURSIVE lstrip(_)
lstrip(s) ==
    IF s = <<>> THEN s
    ELSE IF Head(s) \in Whitespace THEN lstrip(Tail(s)) ELSE s

RECURSIVE rstrip(_)
rstrip(s) ==
    IF s = <<>> THEN s
    ELSE IF s[Len(s)] \in Whitespace THEN rstrip(SubSeq(s, 1, Len(s) - 1)) ELSE s

\* str.strip()
strip(s) == rstrip(lstrip(s))

\* ', '.join(names)
RECURSIVE join(_)
join(names) ==
    IF names = <<>> THEN <<>>
    ELSE IF Len(names) = 1 THEN names[1]
    ELSE names[1] \o <<",", " ">> \o join(Tail(names))

---------------------------------------------------------------------------
(* load_required_tags and check_missing_tags.                              *)

\* open('required_tags.txt'): whether the file exists, and its lines.
FileNotFound == [exists |-> FALSE, lines |-> <<>>]

Environment == <<"E">>
Owner == <<"O">>
Project == <<"P">>

DefaultTags == <<Environment, Owner, Project>>

load_required_tags(f) ==
    IF ~f.exists THEN DefaultTags
    ELSE LET stripped == [i \in DOMAIN f.lines |-> strip(f.lines[i])]
         IN  SelectSeq(stripped, LAMBDA line : line # <<>>)

\* tag.get('Key', '')
TagKey(tag) == IF "Key" \in DOMAIN tag THEN tag.Key ELSE <<>>

\* Mutant: the membership test of the comprehension inverted.
check_missing_tags_inverted(tags, required) ==
    IF tags = <<>> THEN required
    ELSE LET existing_tags == {TagKey(tags[i]) : i \in DOMAIN tags}
         IN  SelectSeq(required, LAMBDA tag : tag \in existing_tags)

\* Mutant: a resource without tags taken to miss nothing.
check_missing_tags_none_when_untagged(tags, required) ==
    IF tags = <<>> THEN <<>>
    ELSE LET existing_tags == {TagKey(tags[i]) : i \in DOMAIN tags}
         IN  SelectSeq(required, LAMBDA tag : tag \notin existing_tags)

check_missing_tags(tags, required) ==
    IF tags = <<>> THEN required
    ELSE LET existing_tags == {TagKey(tags[i]) : i \in DOMAIN tags}
         IN  SelectSeq(required, LAMBDA tag : tag \notin existing_tags)

---------------------------------------------------------------------------
(* The provider: the account that is scanned and the calls that fail.      *)
(* One run sees one provider, fixed when the run starts.  A region is      *)
(* described by the first call of its scan that raises (failAt) and by     *)
(* what each listing call returns; what the provider would answer after    *)
(* the first raising call is never observed and is left out.               *)

RegionNames == <<"us-east-1", "us-west-2", "eu-west-1", "ap-south-1", "sa-east-1">>

\* The order in which get_resources_missing_tags_in_region (CSV script)
\* scans the region-scoped kinds.
KindOrder == <<"EC2 Instance", "EBS Volume", "VPC", "Security Group", "Subnet",
               "Lambda Function", "RDS Instance">>

RegionKinds == Range(KindOrder)

\* Kinds whose tags come from a call of their own, per resource.
LookupKinds == {"Lambda Function", "RDS Instance", "S3 Bucket"}

ProviderAccount == "111122223333"

Tag(key) == [Key |-> key, Value |-> <<"v">>]

AllTags == <<Tag(Owner), Tag(Environment), Tag(Project)>>

\* The tag lists resources of the account carry.
ProviderTagLists == {SubSeq(AllTags, 1, n) : n \in 0..MaxTags}

\* The resource-type part of an EC2 ARN (the f-strings of lines 40-92).
ArnType(kind) ==
    CASE kind = "EC2 Instance" -> "instance"
      [] kind = "EBS Volume" -> "volume"
      [] kind = "VPC" -> "vpc"
      [] kind = "Security Group" -> "security-group"
      [] kind = "Subnet" -> "subnet"

\* function['FunctionArn'], instance['DBInstanceArn']: ARNs the provider gives.
ProviderArn(kind, region, id) ==
    IF kind = "Lambda Function"
    THEN <<"arn:aws:lambda", region, ProviderAccount, "function", id>>
    ELSE <<"arn:aws:rds", region, ProviderAccount, "db", id>>

\* A scenario is a sequence of at most MaxResources events; an event is a
\* resource that exists in a scope (kind, Tags, and whether the call that
\* looks its tags up raises), or a call that raises (failAt); the step
\* "hang" is a call of the region's scan that never returns.
ResourceEvents(scopes, kinds, taglists) ==
    {[scope |-> sc, kind |-> k, Tags |-> t, raises |-> FALSE, failAt |-> "none"] :
        sc \in scopes, k \in kinds, t \in taglists}
    \cup
    {[scope |-> sc, kind |-> k, Tags |-> <<>>, raises |-> TRUE, failAt |-> "none"] :
        sc \in scopes, k \in kinds \cap LookupKinds}

FailureEvents(scopes, steps) ==
    {[scope |-> sc, kind |-> "none", Tags |-> <<>>, raises |-> FALSE, failAt |-> st] :
        sc \in scopes, st \in steps}

Scenarios(events) == UNION {[1..n -> events] : n \in 0..MaxResources}

\* The listing of one kind in one scope: the scenario's resources of that
\* kind and scope, numbered in the order listed.
Listing(sc, scope, kind) ==
    LET hits == SelectSeq(sc, LAMBDA e : e.scope = scope /\ e.kind = kind)
    IN  [i \in DOMAIN hits |->
            [id |-> i, Tags |-> hits[i].Tags, raises |-> hits[i].raises]]

Fails(sc, scope, step) ==
    \E i \in DOMAIN sc : sc[i].scope = scope /\ sc[i].failAt = step

\* The first step of the region's scan that raises.
RECURSIVE FirstFailure(_, _, _)
FirstFailure(sc, scope, steps) ==
    IF steps = <<>> THEN "none"
    ELSE IF Fails(sc, scope, Head(steps)) THEN Head(steps)
    ELSE FirstFailure(sc, scope, Tail(steps))

RegionSteps == <<"session">> \o KindOrder

ProviderOf(sc, regs) ==
    [sts |-> [raises |-> Fails(sc, "Global", "sts"), Account |-> ProviderAccount],
     describe_regions |->
        [raises |-> Fails(sc, "Global", "describe_regions"), Regions |-> regs],
     region |-> [r \in Range(regs) |->
        [failAt |-> FirstFailure(sc, r, RegionSteps),
         hangs |-> Fails(sc, r, "hang"),
         res |-> [k \in RegionKinds |-> Listing(sc, r, k)]]],
     s3 |-> [raises |-> Fails(sc, "Global", "list_buckets"),
             Buckets |-> Listing(sc, "Global", "S3 Bucket")]]

---------------------------------------------------------------------------
(* get_resources_missing_tags_in_region (CSV script).                      *)

Finding(account, region, kind, arn, tags) ==
    [Account |-> account, Region |-> region, Resource |-> kind,
     ARN |-> arn, Missing_Tags |-> join(tags)]

\* Mutant: the resource id left out of the ARN.
Arn_without_id(kind, region, account, id) ==
    IF kind \in {"Lambda Function", "RDS Instance"}
    THEN ProviderArn(kind, region, 0)
    ELSE IF kind = "S3 Bucket"
    THEN <<"arn:aws:s3", "", "", "", 0>>
    ELSE <<"arn:aws:ec2", region, account, ArnType(kind), 0>>

Arn(kind, region, account, id) ==
    IF kind \in {"Lambda Function", "RDS Instance"}
    THEN ProviderArn(kind, region, id)
    ELSE IF kind = "S3 Bucket"
    THEN <<"arn:aws:s3", "", "", "", id>>
    ELSE <<"arn:aws:ec2", region, account, ArnType(kind), id>>

\* The body of one "for resource in listing" loop, for one resource: the
\* Findings it appends.  Kinds with a tag lookup wrap it in try/except.
\* Mutant: the except branch of the tag lookup only passes.
ScanResource_except_pass(kind, arn, r, account, region, required) ==
    IF kind \in LookupKinds /\ r.raises
    THEN <<>>
    ELSE LET miss == check_missing_tags(r.Tags, required)
         IN  IF miss # <<>>
             THEN <<Finding(account, region, kind, arn, miss)>>
             ELSE <<>>

\* Mutant: the Finding carries the required list, not the missing names.
ScanResource_reports_required(kind, arn, r, account, region, required) ==
    IF kind \in LookupKinds /\ r.raises
    THEN <<Finding(account, region, kind, arn, required)>>
    ELSE LET miss == check_missing_tags(r.Tags, required)
         IN  IF miss # <<>>
             THEN <<Finding(account, region, kind, arn, required)>>
             ELSE <<>>

ScanResource(kind, arn, r, account, region, required) ==
    IF kind \in LookupKinds /\ r.raises
    THEN <<Finding(account, region, kind, arn, required)>>
    ELSE LET miss == check_missing_tags(r.Tags, required)
         IN  IF miss # <<>>
             THEN <<Finding(account, region, kind, arn, miss)>>
             ELSE <<>>

RECURSIVE ScanListing(_, _, _, _, _)
ScanListing(kind, listing, account, region, required) ==
    IF listing = <<>> THEN <<>>
    ELSE ScanResource(kind, Arn(kind, region, account, Head(listing).id),
                      Head(listing), account, region, required)
         \o ScanListing(kind, Tail(listing), account, region, required)

\* The try block from the step order[i] on: the Findings appended until a
\* call raises (the except of line 145 ends the scan there) or the kinds
\* are exhausted.
RECURSIVE ScanFrom(_, _, _, _, _, _)
ScanFrom(order, i, w, account, region, required) ==
    IF i > Len(order) \/ w.failAt = order[i] THEN <<>>
    ELSE ScanListing(order[i], w.res[order[i]], account, region, required)
         \o ScanFrom(order, i + 1, w, account, region, required)

\* The listing calls the scan issues: every kind up to the one that raises.
RECURSIVE CallsFrom(_, _, _)
CallsFrom(order, i, w) ==
    IF i > Len(order) THEN <<>>
    ELSE IF w.failAt = order[i] THEN <<order[i]>>
    ELSE <<order[i]>> \o CallsFrom(order, i + 1, w)

\* Mutant: the session and the first client are made outside the try.
get_resources_missing_tags_in_region_session_outside_try(region, account, required, w) ==
    IF w.failAt = "session"
    THEN [resources |-> <<>>, raised |-> TRUE, listed |-> <<>>]
    ELSE [resources |-> ScanFrom(KindOrder, 1, w, account, region, required),
          raised |-> FALSE,
          listed |-> CallsFrom(KindOrder, 1, w)]

\* Mutant: the except branch empties the list before the return.
get_resources_missing_tags_in_region_discards_on_failure(region, account, required, w) ==
    IF w.failAt = "session"
    THEN [resources |-> <<>>, raised |-> FALSE, listed |-> <<>>]
    ELSE [resources |-> IF w.failAt = "none"
                        THEN ScanFrom(KindOrder, 1, w, account, region, required)
                        ELSE <<>>,
          raised |-> FALSE,
          listed |-> CallsFrom(KindOrder, 1, w)]

\* What the call returns (resources), whether it raises, and the listing
\* calls it has made.
get_resources_missing_tags_in_region(region, account, required, w) ==
    IF w.failAt = "session"
    THEN [resources |-> <<>>, raised |-> FALSE, listed |-> <<>>]
    ELSE [resources |-> ScanFrom(KindOrder, 1, w, account, region, required),
          raised |-> FALSE,
          listed |-> CallsFrom(KindOrder, 1, w)]

---------------------------------------------------------------------------
(* The csv module, as DictWriter and DictReader use it (default dialect:   *)
(* delimiter ',', quotechar '"', QUOTE_MINIMAL, doublequote).              *)

Quote == "\""

\* Characters that make the writer quote a field.
SpecialCharacters == {",", Quote, "\n", "\r"}

\* Every quotechar of the field doubled.
RECURSIVE double_quotes(_)
double_quotes(s) ==
    IF s = <<>> THEN <<>>
    ELSE IF Head(s) = Quote THEN <<Quote, Quote>> \o double_quotes(Tail(s))
    ELSE <<Head(s)>> \o double_quotes(Tail(s))

\* The text the writer puts in the file for one field.
writer_field(s) ==
    IF Range(s) \cap SpecialCharacters # {}
    THEN <<Quote>> \o double_quotes(s) \o <<Quote>>
    ELSE s

\* Every doubled quotechar of a quoted field read as one.
RECURSIVE single_quotes(_)
single_quotes(s) ==
    IF s = <<>> THEN <<>>
    ELSE IF Len(s) >= 2 /\ s[1] = Quote /\ s[2] = Quote
    THEN <<Quote>> \o single_quotes(SubSeq(s, 3, Len(s)))
    ELSE <<Head(s)>> \o single_quotes(Tail(s))

\* The value the reader gives for the text of one field.
reader_field(t) ==
    IF t # <<>> /\ t[1] = Quote
    THEN single_quotes(SubSeq(t, 2, Len(t) - 1))
    ELSE t

\* writer.writerows / list(reader): Missing_Tags is the one field whose
\* text can hold a special character; account ids, region names, kind
\* names and ARNs hold none and are written and read as they are.
writerow(row) == [row EXCEPT !.Missing_Tags = writer_field(@)]

DictReaderRow(line) == [line EXCEPT !.Missing_Tags = reader_field(@)]

---------------------------------------------------------------------------
(* main() of the CSV script.                                               *)

NoFile == [written |-> FALSE, rows |-> <<>>]

\* The console script and the analysis script before they are run.
ConsoleIdle == [pc |-> "start", printed |-> <<>>]

AnalysisIdle ==
    [pc |-> "start", resources |-> <<>>, resource_counts |-> <<>>,
     region_counts |-> <<>>, missing_tag_counts |-> <<>>]

Scopes == DOMAIN provider.region \cup {"Global"}

Running == {i \in DOMAIN futures : futures[i].state = "RUNNING"}

\* Mutant: the cap compared one too low.
WorkerFree_off_by_one(running, cap) == Cardinality(running) + 1 < cap

\* Mutant: a work item taken when the pool is already at its cap.
WorkerFree_one_over(running, cap) == Cardinality(running) <= cap

\* A worker thread of the pool is free to take the next work item.
WorkerFree(running, cap) == Cardinality(running) < cap

\* Mutant: the result assigned instead of appended.
Extend_assign(all, resources) == resources

\* all_resources.extend(resources)
Extend(all, resources) == all \o resources

\* Mutant: the loop left after the first future.
LoopDone_after_first(done, fs) == done # {}

\* as_completed(futures) has handed every future to the loop.
LoopDone(done, fs) == done = DOMAIN fs

\* Mutant: a failed list_buckets reported as one Finding with every
\* required tag, as a failed tag lookup is.
S3Pass_fail_open(account, required, s3) ==
    IF s3.raises
    THEN <<Finding(account, "Global", "S3 Bucket",
                   Arn("S3 Bucket", "Global", account, 0), required)>>
    ELSE ScanListing("S3 Bucket", s3.Buckets, account, "Global", required)

\* The S3 pass of lines 172-198: the Findings it appends.
S3Pass(account, required, s3) ==
    IF s3.raises THEN <<>>
    ELSE ScanListing("S3 Bucket", s3.Buckets, account, "Global", required)

\* required_tags = load_required_tags()
LoadRequiredTags ==
    /\ pc = "load"
    /\ required_tags' = load_required_tags(file)
    /\ pc' = "sts"
    /\ UNCHANGED <<file, provider, max_workers, account_id, regions, futures,
                   work_queue, yielded, all_resources, csvfile, calls,
                   resource_tags, missing, console, analysis>>

\* account_id = sts.get_caller_identity()['Account'], outside any try
GetCallerIdentity ==
    /\ pc = "sts"
    /\ IF provider.sts.raises
       THEN pc' = "raised" /\ UNCHANGED account_id
       ELSE pc' = "describe_regions" /\ account_id' = provider.sts.Account
    /\ UNCHANGED <<file, provider, max_workers, required_tags, regions, futures,
                   work_queue, yielded, all_resources, csvfile, calls,
                   resource_tags, missing, console, analysis>>

\* regions = [... describe_regions()['Regions']], outside any try
DescribeRegions ==
    /\ pc = "describe_regions"
    /\ IF provider.describe_regions.raises
       THEN pc' = "raised" /\ UNCHANGED regions
       ELSE /\ regions' = provider.describe_regions.Regions
            /\ pc' = IF regions' = <<>> THEN "s3" ELSE "submit"
    /\ UNCHANGED <<file, provider, max_workers, required_tags, account_id,
                   futures, work_queue, yielded, all_resources, csvfile, calls,
                   resource_tags, missing, console, analysis>>

\* executor.submit(get_resources_missing_tags_in_region, region, ...), for
\* the next region of the list
Submit ==
    /\ pc = "submit"
    /\ LET i == Len(futures) + 1
       IN  /\ futures' = Append(futures,
                [region |-> regions[i], state |-> "PENDING", resources |-> <<>>,
                 raised |-> FALSE, runs |-> 0])
           /\ work_queue' = Append(work_queue, i)
           /\ pc' = IF i = Len(regions) THEN "as_completed" ELSE "submit"
    /\ UNCHANGED <<file, provider, max_workers, required_tags, account_id,
                   regions, yielded, all_resources, csvfile, calls,
                   resource_tags, missing, console, analysis>>

\* A worker thread takes the work item at the head of the queue.
StartTask ==
    /\ work_queue # <<>>
    /\ WorkerFree(Running, max_workers)
    /\ futures' = [futures EXCEPT ![Head(work_queue)].state = "RUNNING",
                                  ![Head(work_queue)].runs = @ + 1]
    /\ work_queue' = Tail(work_queue)
    /\ UNCHANGED <<file, provider, max_workers, pc, required_tags, account_id,
                   regions, yielded, all_resources, csvfile, calls,
                   resource_tags, missing, console, analysis>>

\* The task of future i runs get_resources_missing_tags_in_region to its
\* return (or to the exception it lets out) and the future is set.  No
\* call has a timeout: a task whose provider call never returns never ends.
FinishTask(i) ==
    /\ i \in DOMAIN futures
    /\ futures[i].state = "RUNNING"
    /\ ~provider.region[futures[i].region].hangs
    /\ LET r == futures[i].region
           out == get_resources_missing_tags_in_region(
                      r, account_id, required_tags, provider.region[r])
       IN  /\ futures' = [futures EXCEPT ![i].state = "FINISHED",
                                         ![i].resources = out.resources,
                                         ![i].raised = out.raised]
           /\ calls' = [calls EXCEPT ![r] = @ \o out.listed]
    /\ UNCHANGED <<file, provider, max_workers, pc, required_tags, account_id,
                   regions, work_queue, yielded, all_resources, csvfile,
                   resource_tags, missing, console, analysis>>

\* One turn of "for future in as_completed(futures)": resources =
\* future.result(), which raises what the task raised, then the extend.
AsCompleted(i) ==
    /\ pc = "as_completed"
    /\ i \notin yielded
    /\ futures[i].state = "FINISHED"
    /\ yielded' = yielded \cup {i}
    /\ IF futures[i].raised
       THEN pc' = "raised" /\ UNCHANGED all_resources
       ELSE /\ all_resources' = Extend(all_resources, futures[i].resources)
            /\ pc' = IF LoopDone(yielded', futures) THEN "s3" ELSE "as_completed"
    /\ UNCHANGED <<file, provider, max_workers, required_tags, account_id,
                   regions, futures, work_queue, csvfile, calls,
                   resource_tags, missing, console, analysis>>

\* # S3 Buckets (global): the try block of lines 173-198
GlobalPass ==
    /\ pc = "s3"
    /\ all_resources' =
          all_resources \o S3Pass(account_id, required_tags, provider.s3)
    /\ calls' = [calls EXCEPT !["Global"] = @ \o <<"S3 Bucket">>]
    /\ pc' = "export"
    /\ UNCHANGED <<file, provider, max_workers, required_tags, account_id,
                   regions, futures, work_queue, yielded, csvfile,
                   resource_tags, missing, console, analysis>>

\* # Export to CSV: the file is written only when there are rows
Export ==
    /\ pc = "export"
    /\ csvfile' = IF all_resources # <<>>
                  THEN [written |-> TRUE,
                        rows |-> [i \in DOMAIN all_resources |->
                                     writerow(all_resources[i])]]
                  ELSE NoFile
    /\ pc' = "done"
    /\ UNCHANGED <<file, provider, max_workers, required_tags, account_id,
                   regions, futures, work_queue, yielded, all_resources, calls,
                   resource_tags, missing, console, analysis>>

Next ==
    \/ LoadRequiredTags
    \/ GetCallerIdentity
    \/ DescribeRegions
    \/ Submit
    \/ StartTask
    \/ \E i \in DOMAIN futures : FinishTask(i)
    \/ \E i \in DOMAIN futures : AsCompleted(i)
    \/ GlobalPass
    \/ Export

---------------------------------------------------------------------------
(* The console script (specific_tags_are_not_set_aws_resources_per_region). *)
(* It scans the same provider with the same required_tags.txt and prints    *)
(* one line per resource under the heading of its region.                   *)

\* The order in which its get_resources_missing_tags_in_region scans the
\* region-scoped kinds.
ConsoleKindOrder == <<"EC2 Instance", "EBS Volume", "Lambda Function",
                      "RDS Instance", "VPC", "Security Group", "Subnet">>

\* f"{kind}: {id} (missing: {', '.join(missing)})", under a region heading
ConsoleLine(region, kind, id, tags) ==
    [Region |-> region, Resource |-> kind, Name |-> id,
     Missing_Tags |-> join(tags)]

ConsoleScanResource(kind, r, region, required) ==
    IF kind \in LookupKinds /\ r.raises
    THEN <<ConsoleLine(region, kind, r.id, required)>>
    ELSE LET miss == check_missing_tags(r.Tags, required)
         IN  IF miss # <<>>
             THEN <<ConsoleLine(region, kind, r.id, miss)>>
             ELSE <<>>

RECURSIVE ConsoleScanListing(_, _, _, _)
ConsoleScanListing(kind, listing, region, required) ==
    IF listing = <<>> THEN <<>>
    ELSE ConsoleScanResource(kind, Head(listing), region, required)
         \o ConsoleScanListing(kind, Tail(listing), region, required)

\* The try block of lines 23-89 from the step order[i] on.
RECURSIVE ConsoleScanFrom(_, _, _, _, _)
ConsoleScanFrom(order, i, w, region, required) ==
    IF i > Len(order) \/ w.failAt = order[i] THEN <<>>
    ELSE ConsoleScanListing(order[i], w.res[order[i]], region, required)
         \o ConsoleScanFrom(order, i + 1, w, region, required)

\* missing_tags_resources of (region, missing_tags_resources)
console_get_resources_missing_tags_in_region(region, required, w) ==
    IF w.failAt = "session" THEN <<>>
    ELSE ConsoleScanFrom(ConsoleKindOrder, 1, w, region, required)

\* The region blocks printed by the as_completed loop, for the futures in
\* the order they complete.
RECURSIVE ConsoleRegions(_, _, _, _)
ConsoleRegions(order, regs, required, p) ==
    IF order = <<>> THEN <<>>
    ELSE console_get_resources_missing_tags_in_region(
             regs[Head(order)], required, p.region[regs[Head(order)]])
         \o ConsoleRegions(Tail(order), regs, required, p)

\* # S3 Buckets (global): the lines of the "Global S3" block
ConsoleS3(required, s3) ==
    IF s3.raises THEN <<>>
    ELSE ConsoleScanListing("S3 Bucket", s3.Buckets, "Global", required)

CompletionOrders(n) ==
    {f \in [1..n -> 1..n] : \A i, j \in 1..n : f[i] = f[j] => i = j}

\* main() of the console script, run once the CSV script has ended.  It
\* makes no sts call; describe_regions is outside any try; the lines of a
\* run are those of its region blocks, in completion order, then the S3
\* block.  The run ends only if every task does.
ConsoleMain ==
    /\ pc \in {"done", "raised"}
    /\ console.pc = "start"
    /\ \A r \in DOMAIN provider.region : ~provider.region[r].hangs
    /\ IF provider.describe_regions.raises
       THEN console' = [pc |-> "raised", printed |-> <<>>]
       ELSE \E order \in CompletionOrders(Len(provider.describe_regions.Regions)) :
               console' =
                   [pc |-> "done",
                    printed |->
                        ConsoleRegions(order, provider.describe_regions.Regions,
                                       load_required_tags(file), provider)
                        \o ConsoleS3(load_required_tags(file), provider.s3)]
    /\ UNCHANGED <<file, provider, max_workers, pc, required_tags, account_id,
                   regions, futures, work_queue, yielded, all_resources,
                   csvfile, calls, resource_tags, missing, analysis>>

---------------------------------------------------------------------------
(* The analysis script (analyze_csv), run on the file the CSV script has   *)
(* written.                                                                *)

\* str.split(c)
RECURSIVE split(_, _)
split(s, c) ==
    IF c \in Range(s)
    THEN LET i == CHOOSE k \in DOMAIN s :
                      s[k] = c /\ \A j \in 1..(k - 1) : s[j] # c
         IN  <<SubSeq(s, 1, i - 1)>> \o split(SubSeq(s, i + 1, Len(s)), c)
    ELSE <<s>>

\* Counter(items): the counts, keys in the order first met.
RECURSIVE Counter(_)
Counter(items) ==
    IF items = <<>> THEN <<>>
    ELSE LET c == Counter(SubSeq(items, 1, Len(items) - 1))
             x == items[Len(items)]
         IN  IF \E i \in DOMAIN c : c[i].key = x
             THEN [i \in DOMAIN c |->
                      IF c[i].key = x THEN [c[i] EXCEPT !.n = @ + 1] ELSE c[i]]
             ELSE Append(c, [key |-> x, n |-> 1])

\* Mutant: equal counts come out in reverse order (an ascending sort,
\* then reversed).
RECURSIVE most_common_reversed_ties(_)
most_common_reversed_ties(c) ==
    IF c = <<>> THEN <<>>
    ELSE LET s == most_common_reversed_ties(SubSeq(c, 1, Len(c) - 1))
             x == c[Len(c)]
             k == Cardinality({i \in DOMAIN s : s[i].n > x.n})
         IN  SubSeq(s, 1, k) \o <<x>> \o SubSeq(s, k + 1, Len(s))

\* Counter.most_common(): sorted(items, key=count, reverse=True), a stable
\* sort: equal counts keep the order first met.
RECURSIVE most_common(_)
most_common(c) ==
    IF c = <<>> THEN <<>>
    ELSE LET s == most_common(SubSeq(c, 1, Len(c) - 1))
             x == c[Len(c)]
             k == Cardinality({i \in DOMAIN s : s[i].n >= x.n})
         IN  SubSeq(s, 1, k) \o <<x>> \o SubSeq(s, k + 1, Len(s))

\* [tag.strip() for tag in row['Missing_Tags'].split(',')]
missing_tags_of(row) ==
    LET parts == split(row.Missing_Tags, ",")
    IN  [i \in DOMAIN parts |-> strip(parts[i])]

\* all_missing_tags after the loop over the rows
RECURSIVE all_missing_tags(_)
all_missing_tags(resources) ==
    IF resources = <<>> THEN <<>>
    ELSE missing_tags_of(Head(resources)) \o all_missing_tags(Tail(resources))

\* analyze_csv(latest_file), or the message of line 72 when the CSV script
\* has written no file.
AnalyzeCsv ==
    /\ pc = "done"
    /\ analysis.pc = "start"
    /\ IF ~csvfile.written
       THEN analysis' = [AnalysisIdle EXCEPT !.pc = "nofile"]
       ELSE LET resources ==
                    [i \in DOMAIN csvfile.rows |-> DictReaderRow(csvfile.rows[i])]
            IN  IF resources = <<>>
                THEN analysis' = [AnalysisIdle EXCEPT !.pc = "nodata"]
                ELSE analysis' =
                    [pc |-> "done",
                     resources |-> resources,
                     resource_counts |-> most_common(Counter(
                         [i \in DOMAIN resources |-> resources[i].Resource])),
                     region_counts |-> most_common(Counter(
                         [i \in DOMAIN resources |-> resources[i].Region])),
                     missing_tag_counts |->
                         most_common(Counter(all_missing_tags(resources)))]
    /\ UNCHANGED <<file, provider, max_workers, pc, required_tags, account_id,
                   regions, futures, work_queue, yielded, all_resources,
                   csvfile, calls, resource_tags, missing, console>>

---------------------------------------------------------------------------
(* Runs.                                                                   *)

Lines == {<<"O">>, <<" ", "E", " ">>, <<" ">>}

Files == {FileNotFound} \cup
         {[exists |-> TRUE, lines |-> l] :
             l \in UNION {[1..n -> Lines] : n \in 0..MaxLines}}

\* The state main() starts in, for a given file, provider and pool cap.
Start(f, p, cap) ==
    /\ file = f
    /\ provider = p
    /\ max_workers = cap
    /\ pc = "load"
    /\ required_tags = <<>>
    /\ account_id = ""
    /\ regions = <<>>
    /\ futures = <<>>
    /\ work_queue = <<>>
    /\ yielded = {}
    /\ all_resources = <<>>
    /\ csvfile = NoFile
    /\ calls = [s \in DOMAIN p.region \cup {"Global"} |-> <<>>]
    /\ resource_tags = <<>>
    /\ missing = <<>>
    /\ console = ConsoleIdle
    /\ analysis = AnalysisIdle

\* Fleet runs: MaxRegions regions, every pool cap up to MaxWorkers, and in
\* every scope at most one event.
FleetRegions == SubSeq(RegionNames, 1, MaxRegions)

FleetEvents(scope, kinds) ==
    IF scope = "Global"
    THEN ResourceEvents({scope}, {"S3 Bucket"}, {<<>>})
         \cup FailureEvents({scope}, {"sts", "describe_regions", "list_buckets"})
    ELSE ResourceEvents({scope}, kinds \ LookupKinds, {<<>>})
         \cup ResourceEvents({scope}, kinds \cap LookupKinds, {})
         \cup FailureEvents({scope}, {"session"})

RECURSIVE FleetScenarios(_, _)
FleetScenarios(scopes, kinds) ==
    IF scopes = <<>> THEN {<<>>}
    ELSE {first \o rest :
            first \in {<<>>} \cup {<<e>> : e \in FleetEvents(Head(scopes), kinds)},
            rest \in FleetScenarios(Tail(scopes), kinds)}

FleetProviders(kinds) ==
    {ProviderOf(sc, FleetRegions) :
        sc \in FleetScenarios(FleetRegions \o <<"Global">>, kinds)}

FleetFiles == {FileNotFound, [exists |-> TRUE, lines |-> << <<"O">> >>]}

Init ==
    \E f \in FleetFiles,
       p \in FleetProviders({"EC2 Instance", "Lambda Function"}),
       cap \in 1..MaxWorkers :
        Start(f, p, cap)

Spec == Init /\ [][Next]_vars

\* Single-region runs: every kind, every tag list, every failing call.
ScanRegions == SubSeq(RegionNames, 1, 1)

ScanEvents ==
    ResourceEvents(Range(ScanRegions), RegionKinds, ProviderTagLists)
    \cup ResourceEvents({"Global"}, {"S3 Bucket"}, ProviderTagLists)
    \cup FailureEvents(Range(ScanRegions), Range(RegionSteps))
    \cup FailureEvents({"Global"}, {"sts", "describe_regions", "list_buckets"})

ScanProviders == {ProviderOf(sc, ScanRegions) : sc \in Scenarios(ScanEvents)}

ScanFiles == {f \in Files : Len(f.lines) <= 1}

InitScan ==
    \E f \in ScanFiles, p \in ScanProviders : Start(f, p, 1)

SpecScan == InitScan /\ [][Next]_vars

\* The CSV script, then the console script, on the same account and file.
NextBoth == Next \/ ConsoleMain

SpecBoth == InitScan /\ [][NextBoth]_vars

\* Threads are scheduled fairly: the main thread and every worker thread
\* that can take a step eventually takes one.
MainThread ==
    \/ LoadRequiredTags
    \/ GetCallerIdentity
    \/ DescribeRegions
    \/ Submit
    \/ \E i \in DOMAIN futures : AsCompleted(i)
    \/ GlobalPass
    \/ Export

Fairness ==
    /\ WF_vars(MainThread)
    /\ WF_vars(StartTask)
    /\ \A i \in 1..MaxRegions : WF_vars(FinishTask(i))

\* Fleet runs whose end is checked: the default tags, EC2 instances only.
InitFair ==
    \E p \in FleetProviders({"EC2 Instance"}), cap \in 1..MaxWorkers :
        Start(FileNotFound, p, cap)

SpecFair == InitFair /\ [][Next]_vars /\ Fairness

\* The CSV script, then the analysis script on the file it wrote: one
\* region with up to MaxRows resources, and tag files whose lines may hold
\* a comma.
AnalysisLines == {<<"O">>, <<"a", ",", "b">>, <<" ">>}

AnalysisFiles == {FileNotFound} \cup
    {[exists |-> TRUE, lines |-> l] :
        l \in UNION {[1..n -> AnalysisLines] : n \in 0..MaxLines}}

AnalysisEvents ==
    ResourceEvents(Range(ScanRegions), {"EC2 Instance"}, {<<>>, <<Tag(Owner)>>})
    \cup ResourceEvents(Range(ScanRegions), {"VPC"}, {<<>>})
    \cup ResourceEvents(Range(ScanRegions), {"Lambda Function"}, {})

AnalysisProviders ==
    {ProviderOf(sc, ScanRegions) :
        sc \in UNION {[1..n -> AnalysisEvents] : n \in 0..MaxRows}}

InitAnalysis ==
    \E f \in AnalysisFiles, p \in AnalysisProviders : Start(f, p, 1)

NextAnalysis == Next \/ AnalyzeCsv

SpecAnalysis == InitAnalysis /\ [][NextAnalysis]_vars

\* Fleet runs in which at most one region has a call that never returns;
\* the global calls succeed and there is no bucket.
HangProviders ==
    {ProviderOf(sc \o hang, FleetRegions) :
        sc \in FleetScenarios(FleetRegions, {"EC2 Instance"}),
        hang \in {<<>>} \cup
                 {<<e>> : e \in FailureEvents(Range(FleetRegions), {"hang"})}}

InitHang ==
    \E p \in HangProviders, cap \in 1..MaxWorkers :
        Start(FileNotFound, p, cap)

SpecHang == InitHang /\ [][Next]_vars /\ Fairness

\* Calls of check_missing_tags: every list load_required_tags returns,
\* against every tag list (a tag may lack its Key).
TagLists ==
    UNION {[1..n -> {Tag(Owner), Tag(Environment), [Value |-> <<"v">>]}] :
              n \in 0..MaxTags}

CheckMissingTags ==
    /\ pc = "check"
    /\ missing' = check_missing_tags(resource_tags, required_tags)
    /\ pc' = "checked"
    /\ UNCHANGED <<file, provider, max_workers, required_tags, account_id,
                   regions, futures, work_queue, yielded, all_resources,
                   csvfile, calls, resource_tags, console, analysis>>

InitTags ==
    \E f \in Files, tags \in TagLists :
        /\ file = f
        /\ provider = ProviderOf(<<>>, <<>>)
        /\ max_workers = 1
        /\ pc = "check"
        /\ required_tags = load_required_tags(f)
        /\ account_id = ""
        /\ regions = <<>>
        /\ futures = <<>>
        /\ work_queue = <<>>
        /\ yielded = {}
        /\ all_resources = <<>>
        /\ csvfile = NoFile
        /\ calls = [s \in {"Global"} |-> <<>>]
        /\ resource_tags = tags
        /\ missing = <<>>
        /\ console = ConsoleIdle
        /\ analysis = AnalysisIdle

NextTags == CheckMissingTags

SpecTags == InitTags /\ [][NextTags]_vars

---------------------------------------------------------------------------
(* Vocabulary of the properties.                                           *)

\* s is t with some elements left out, the rest in t's order.
IsSubsequence(s, t) ==
    \E f \in [DOMAIN s -> DOMAIN t] :
        /\ \A i \in DOMAIN s : s[i] = t[f[i]]
        /\ \A i, j \in DOMAIN s : i < j => f[i] < f[j]

\* The keys present in a tag list.
Keys(tags) == {tags[i].Key : i \in {j \in DOMAIN tags : "Key" \in DOMAIN tags[j]}}

\* The entries of a Finding sequence for one resource.
Entries(findings, region, kind, arn) ==
    {i \in DOMAIN findings :
        /\ findings[i].Region = region
        /\ findings[i].Resource = kind
        /\ findings[i].ARN = arn}

Triple(f) == <<f.Region, f.Resource, f.ARN>>

\* The resource lacks a required tag, or its tags cannot be looked up.
Untagged(r) == r.raises \/ Range(required_tags) \ Keys(r.Tags) # {}

Finished(i) == i \in DOMAIN futures /\ futures[i].state = "FINISHED"

\* The listing call of kind k returned in the scan of region r.
WasListed(r, k) ==
    k \in Range(calls[r]) /\ provider.region[r].failAt # k

Merged == pc \in {"export", "done"}

BagOf(s) == [x \in Range(s) |-> Cardinality({i \in DOMAIN s : s[i] = x})]

RECURSIVE BagSum(_, _)
BagSum(fs, n) ==
    IF n = 0 THEN EmptyBag ELSE BagSum(fs, n - 1) (+) BagOf(fs[n].resources)

---------------------------------------------------------------------------
(* C1.  check_missing_tags(existing, required) is a subsequence of         *)
(* required in required's order, and its names are exactly the required    *)
(* names that are not keys of existing.                                    *)
C1_MissingIsOrderedDifference ==
    pc = "checked" =>
        /\ IsSubsequence(missing, required_tags)
        /\ Range(missing) = Range(required_tags) \ Keys(resource_tags)

C1_Witness ==
    /\ pc = "checked"
    /\ resource_tags # <<>>
    /\ Len(missing) = 2
    /\ Len(required_tags) = 3

(* C2.  When the tag lookup of a listed Lambda function, RDS instance or   *)
(* S3 bucket raises, the task does not raise, the resources listed after   *)
(* it are still scanned, and the result holds exactly one Finding for the  *)
(* resource, whose Missing_Tags is the whole required list.                *)
C2_ReportedInFull(findings, region, kind, listing) ==
    \A n \in DOMAIN listing :
        LET arn == Arn(kind, region, account_id, listing[n].id)
            hit == Entries(findings, region, kind, arn)
        IN  /\ listing[n].raises =>
                /\ Cardinality(hit) = 1
                /\ \A i \in hit : findings[i].Missing_Tags = join(required_tags)
            /\ (\E m \in 1..(n - 1) : listing[m].raises) /\ Untagged(listing[n])
                => hit # {}

\* C2: a listed resource whose tag lookup raises gets exactly one Finding,
\* with the whole required list, in the task's result and in the merged one.
C2_LookupFailureReportsAllRequired ==
    /\ \A i \in DOMAIN futures : Finished(i) =>
          /\ ~futures[i].raised
          /\ \A k \in {"Lambda Function", "RDS Instance"} :
                WasListed(futures[i].region, k) =>
                    /\ C2_ReportedInFull(futures[i].resources, futures[i].region, k,
                          provider.region[futures[i].region].res[k])
                    /\ Merged =>
                          C2_ReportedInFull(all_resources, futures[i].region, k,
                              provider.region[futures[i].region].res[k])
    /\ Merged /\ ~provider.s3.raises =>
          C2_ReportedInFull(all_resources, "Global", "S3 Bucket", provider.s3.Buckets)

C2_Witness ==
    /\ pc = "done"
    /\ Len(required_tags) = 3
    /\ \E i \in DOMAIN futures :
          LET l == provider.region[futures[i].region].res["RDS Instance"]
          IN  /\ WasListed(futures[i].region, "RDS Instance")
              /\ Len(l) = 2
              /\ l[1].raises
              /\ ~l[2].raises

(* C3.  In the scan of one region, when the listing call of one kind       *)
(* raises, every other region-scoped kind is still listed exactly once     *)
(* and its Findings are in the region's result.                            *)
C3_KindFailureDoesNotBlockOthers ==
    \A i \in DOMAIN futures :
        LET r == futures[i].region
            w == provider.region[r]
        IN  Finished(i) /\ w.failAt \in RegionKinds =>
                \A k \in RegionKinds \ {w.failAt} :
                    /\ Cardinality({n \in DOMAIN calls[r] : calls[r][n] = k}) = 1
                    /\ \A n \in DOMAIN w.res[k] :
                          Untagged(w.res[k][n]) =>
                              Entries(futures[i].resources, r, k,
                                      Arn(k, r, account_id, w.res[k][n].id)) # {}

(* C4.  Every Finding of the result has a non-empty Missing_Tags, for      *)
(* every list load_required_tags returns and every failing tag lookup.     *)
C4_MissingTagsNonEmpty ==
    /\ \A i \in DOMAIN all_resources : all_resources[i].Missing_Tags # <<>>
    /\ \A i \in DOMAIN futures :
          \A n \in DOMAIN futures[i].resources :
              futures[i].resources[n].Missing_Tags # <<>>

(* C5.  With N regions and a pool cap below N, one task is submitted per   *)
(* region, every task runs to its end exactly once, and the Findings of    *)
(* every region are in the merged result.                                  *)
C5_AllRun ==
    /\ pc = "done"
    /\ Len(futures) = Len(regions)
    /\ \A i \in DOMAIN futures :
          /\ Finished(i)
          /\ futures[i].runs = 1
          /\ \A n \in DOMAIN futures[i].resources :
                futures[i].resources[n] \in Range(all_resources)
    /\ \A r \in Range(regions) :
          provider.region[r].failAt = "none" =>
              \A k \in RegionKinds : \A n \in DOMAIN provider.region[r].res[k] :
                  Untagged(provider.region[r].res[k][n]) =>
                      Entries(all_resources, r, k,
                          Arn(k, r, account_id, provider.region[r].res[k][n].id)) # {}

C5_OneTaskPerRegion ==
    /\ Len(futures) <= Len(regions)
    /\ \A i \in DOMAIN futures :
          futures[i].region = regions[i] /\ futures[i].runs <= 1
    /\ \A i, j \in DOMAIN regions : i # j => regions[i] # regions[j]

\* C5: one task per region, each run at most once, and once the regions are
\* known the run reaches its end with every task run and merged.
C5_EveryRegionScannedOnce ==
    /\ []C5_OneTaskPerRegion
    /\ (pc = "submit") ~> C5_AllRun

C5_Witness ==
    /\ C5_AllRun
    /\ max_workers < Len(regions)
    /\ \A i \in DOMAIN futures : futures[i].resources # <<>>

(* C6.  Whatever the order in which the tasks complete, the merged         *)
(* collection is the multiset union of what the tasks returned and of the  *)
(* Findings of the S3 pass, and only the main thread's merge steps (a      *)
(* turn of the as_completed loop, the S3 pass) change it.                  *)
C6_MergedIsUnion ==
    Merged =>
        BagOf(all_resources) =
            BagSum(futures, Len(futures))
            (+) BagOf(S3Pass(account_id, required_tags, provider.s3))

C6_OnlyMergeWrites ==
    all_resources' # all_resources =>
        /\ futures' = futures
        /\ \/ yielded' # yielded
           \/ pc = "s3" /\ pc' = "export"

\* C6: the merged collection is the multiset union of the results, and only
\* the merge steps write it.
C6_MergeLosesNothing == []C6_MergedIsUnion /\ [][C6_OnlyMergeWrites]_vars

C6_Witness ==
    /\ pc = "done"
    /\ Len(regions) >= 3
    /\ \A i \in DOMAIN futures : futures[i].resources # <<>>
    /\ all_resources[1].Region = regions[3]
    /\ all_resources[Len(all_resources)].Region = "Global"

(* C7.  The S3 pass starts only after every region task has completed; it  *)
(* runs whatever the tasks returned; and the file is written only after    *)
(* the region tasks and the S3 pass are over, from the whole result.       *)
C7_AllTasksOver ==
    /\ Len(futures) = Len(regions)
    /\ \A i \in DOMAIN futures : Finished(i) /\ i \in yielded

\* C7: the S3 pass follows the last region task, always runs, and the file
\* is written last, from the whole result.
C7_GlobalPassAfterRegions ==
    /\ pc = "s3" \/ calls["Global"] # <<>> => C7_AllTasksOver
    /\ Merged => calls["Global"] = <<"S3 Bucket">>
    /\ csvfile.written =>
          /\ pc = "done"
          /\ C7_AllTasksOver
          /\ csvfile.rows =
                [i \in DOMAIN all_resources |-> writerow(all_resources[i])]

C7_Witness ==
    /\ csvfile.written
    /\ \E i \in DOMAIN futures : futures[i].resources = <<>>
    /\ \E i \in DOMAIN futures : futures[i].resources # <<>>
    /\ \E n \in DOMAIN csvfile.rows : csvfile.rows[n].Region = "Global"
    /\ \E n \in DOMAIN csvfile.rows : csvfile.rows[n].Region # "Global"

(* C8.  Whatever provider call fails, the run is not aborted: main() never *)
(* ends on an exception.                                                   *)
C8_RunNeverAborts == pc # "raised"

(* C9.  When the session or the first client of a region cannot be made,   *)
(* the region's task returns no Finding and does not raise, the run goes   *)
(* on, and the Findings of the other regions are those of their untagged   *)
(* resources.                                                              *)
C9_Expected(r) ==
    LET res == provider.region[r].res
    IN  {<<r, k, Arn(k, r, account_id, res[k][n].id)>> :
            <<k, n>> \in {<<kk, nn>> \in RegionKinds \X (1..MaxResources) :
                            nn \in DOMAIN res[kk] /\ Untagged(res[kk][nn])}}

C9_Found(r) ==
    {Triple(all_resources[n]) :
        n \in {m \in DOMAIN all_resources : all_resources[m].Region = r}}

\* C9: a region whose session cannot be made contributes nothing and raises
\* nothing; the other regions' Findings are those of their untagged resources.
C9_RegionUnavailable ==
    /\ \A i \in DOMAIN futures :
          Finished(i) /\ provider.region[futures[i].region].failAt = "session" =>
              /\ futures[i].resources = <<>>
              /\ ~futures[i].raised
              /\ calls[futures[i].region] = <<>>
    /\ pc = "raised" => futures = <<>>
    /\ Merged =>
          \A r \in Range(regions) :
              /\ provider.region[r].failAt = "session" => C9_Found(r) = {}
              /\ provider.region[r].failAt = "none" => C9_Found(r) = C9_Expected(r)

C9_Witness ==
    /\ pc = "done"
    /\ \E r \in Range(regions) : provider.region[r].failAt = "session"
    /\ \E n \in DOMAIN all_resources : all_resources[n].Region \in Range(regions)

(* C10.  The merged collection never holds two entries with the same       *)
(* (Region, Resource, ARN).                                                *)
C10_TriplesUnique ==
    \A i, j \in DOMAIN all_resources :
        Triple(all_resources[i]) = Triple(all_resources[j]) => i = j

C10_Witness ==
    /\ pc = "done"
    /\ \E i, j \in DOMAIN all_resources :
          /\ i # j
          /\ all_resources[i].Region = all_resources[j].Region
          /\ all_resources[i].Resource = all_resources[j].Resource

(* C11.  A listed resource whose tags are obtained without failure gets   *)
(* exactly one Finding when a required tag is absent from its tags, with   *)
(* the scanned region, the kind and exactly the absent required names in   *)
(* required order; it gets no Finding when every required tag is present.  *)
Absent(r) == SelectSeq(required_tags, LAMBDA name : name \notin Keys(r.Tags))

C11_Reported(findings, region, kind, listing) ==
    \A n \in DOMAIN listing :
        LET hit == Entries(findings, region, kind,
                           Arn(kind, region, account_id, listing[n].id))
        IN  ~listing[n].raises =>
                IF Absent(listing[n]) # <<>>
                THEN /\ Cardinality(hit) = 1
                     /\ \A i \in hit :
                           findings[i].Missing_Tags = join(Absent(listing[n]))
                ELSE hit = {}

\* C11: one Finding with exactly the absent required names for a listed
\* resource that lacks some, none for a resource that has them all.
C11_OneFindingWithAbsentTags ==
    /\ \A i \in DOMAIN futures : Finished(i) =>
          \A k \in RegionKinds : WasListed(futures[i].region, k) =>
              /\ C11_Reported(futures[i].resources, futures[i].region, k,
                    provider.region[futures[i].region].res[k])
              /\ Merged =>
                    C11_Reported(all_resources, futures[i].region, k,
                        provider.region[futures[i].region].res[k])
    /\ Merged /\ ~provider.s3.raises =>
          C11_Reported(all_resources, "Global", "S3 Bucket", provider.s3.Buckets)

C11_Witness ==
    /\ pc = "done"
    /\ required_tags = DefaultTags
    /\ \E r \in Range(regions) :
          LET l == provider.region[r].res["EC2 Instance"]
          IN  /\ WasListed(r, "EC2 Instance")
              /\ Len(l) = 1
              /\ Keys(l[1].Tags) = {Owner}
              /\ \E n \in DOMAIN all_resources :
                    /\ all_resources[n].Region = r
                    /\ all_resources[n].Resource = "EC2 Instance"
                    /\ all_resources[n].Missing_Tags = join(<<Environment, Project>>)

(* C12.  At every moment the number of region tasks that are executing   *)
(* is at most the cap of the worker pool.                                  *)
C12_RunningWithinCap == Cardinality(Running) <= max_workers

C12_Witness ==
    /\ max_workers = MaxWorkers
    /\ Cardinality(Running) = max_workers
    /\ work_queue # <<>>

(* C13.  When list_buckets fails, the S3 pass adds no Finding and lets no  *)
(* error out, and the Findings merged from the region tasks stay as they   *)
(* were.                                                                   *)
C13_NothingFromGlobal ==
    provider.s3.raises /\ calls["Global"] # <<>> =>
        /\ pc \in {"export", "done"}
        /\ \A n \in DOMAIN all_resources : all_resources[n].Region # "Global"
        /\ BagOf(all_resources) = BagSum(futures, Len(futures))

C13_RegionFindingsKept ==
    pc = "s3" /\ provider.s3.raises =>
        all_resources' = all_resources /\ pc' = "export"

\* C13: a failed bucket listing contributes nothing, surfaces nothing and
\* leaves the merged region Findings unchanged.
C13_BucketListingFailureIsSilent ==
    []C13_NothingFromGlobal /\ [][C13_RegionFindingsKept]_vars

C13_Witness ==
    /\ pc = "done"
    /\ provider.s3.raises
    /\ csvfile.written
    /\ Len(all_resources) >= 2

(* C14.  When the resource has no tags (the list is empty or absent),      *)
(* check_missing_tags returns the required list itself: same names, same   *)
(* order, same length.                                                     *)
C14_UntaggedMissesAllRequired ==
    pc = "checked" /\ resource_tags = <<>> => missing = required_tags

C14_Witness ==
    /\ pc = "checked"
    /\ resource_tags = <<>>
    /\ missing = <<Owner, Environment>>

(* C19.  When a provider call raises part-way through the scan of a        *)
(* region, the Findings of the kinds listed before it are in the task's    *)
(* result and in the merged collection.                                    *)
C19_PartialResultsKept ==
    \A i \in DOMAIN futures :
        LET r == futures[i].region
            w == provider.region[r]
        IN  Finished(i) /\ w.failAt \in RegionKinds =>
                /\ ~futures[i].raised
                /\ \A k \in RegionKinds : WasListed(r, k) =>
                      \A n \in DOMAIN w.res[k] : Untagged(w.res[k][n]) =>
                          LET arn == Arn(k, r, account_id, w.res[k][n].id)
                          IN  /\ Entries(futures[i].resources, r, k, arn) # {}
                              /\ Merged => Entries(all_resources, r, k, arn) # {}

C19_Witness ==
    /\ pc = "done"
    /\ \E r \in Range(regions) :
          /\ provider.region[r].failAt = "Lambda Function"
          /\ \E n \in DOMAIN all_resources :
                all_resources[n].Region = r /\ all_resources[n].Resource = "VPC"

(* C18.  When the task of exactly one region never ends, the task of      *)
(* every other region still runs to its end (the pool has a worker left:   *)
(* the cap, 15 in the code, is above one), while the run never gets to     *)
(* the S3 pass or to the file: it waits for every dispatched task.         *)
HungRegions == {r \in DOMAIN provider.region : provider.region[r].hangs}

C18_Waiting ==
    Cardinality(HungRegions) = 1 =>
        /\ pc \notin {"s3", "export", "done"}
        /\ calls["Global"] = <<>>
        /\ ~csvfile.written

\* C18: with one task hung forever every other task completes, and the run
\* does not go past the as_completed loop.
C18_OneHungTaskBlocksOnlyTheReturn ==
    /\ []C18_Waiting
    /\ \A i \in 1..MaxRegions :
          (/\ pc = "as_completed"
           /\ Cardinality(HungRegions) = 1
           /\ max_workers >= 2
           /\ futures[i].region \notin HungRegions) ~> Finished(i)

C18_Witness ==
    /\ pc = "as_completed"
    /\ max_workers >= 2
    /\ Cardinality(HungRegions) = 1
    /\ all_resources # <<>>
    /\ \A i \in DOMAIN futures :
          IF futures[i].region \in HungRegions
          THEN futures[i].state = "RUNNING"
          ELSE Finished(i) /\ i \in yielded

(* C20.  On the same provider (same resources, tags and failing calls)    *)
(* and the same required tags, the console script and the CSV script       *)
(* report the same set of (region, kind, resource, missing tags).          *)
ConsoleReported ==
    {<<console.printed[n].Region, console.printed[n].Resource,
       console.printed[n].Name, console.printed[n].Missing_Tags>> :
        n \in DOMAIN console.printed}

CsvReported ==
    {<<csvfile.rows[n].Region, csvfile.rows[n].Resource,
       csvfile.rows[n].ARN[5], DictReaderRow(csvfile.rows[n]).Missing_Tags>> :
        n \in DOMAIN csvfile.rows}

\* C20: once both scripts have run, what the console script printed and
\* what the CSV script exported name the same entries.
C20_ScriptsReportTheSame ==
    console.pc # "start" => ConsoleReported = CsvReported

(* The missing_tags sequence of a Finding as the scan held it before the   *)
(* join: every required name when the tag lookup of its resource raised,   *)
(* the required names absent from the resource's tags otherwise.           *)
ResourceOf(f) ==
    IF f.Region = "Global"
    THEN provider.s3.Buckets[f.ARN[5]]
    ELSE provider.region[f.Region].res[f.Resource][f.ARN[5]]

MissingOf(f) ==
    IF ResourceOf(f).raises THEN required_tags ELSE Absent(ResourceOf(f))

RECURSIVE SumOfCounts(_)
SumOfCounts(table) ==
    IF table = <<>> THEN 0 ELSE Head(table).n + SumOfCounts(Tail(table))

RECURSIVE MissingEntries(_)
MissingEntries(findings) ==
    IF findings = <<>> THEN 0
    ELSE Len(MissingOf(Head(findings))) + MissingEntries(Tail(findings))

\* The count the table gives for a key (0 when the key has no bucket).
CountOf(table, key) ==
    LET hit == {j \in DOMAIN table : table[j].key = key}
    IN  IF hit = {} THEN 0 ELSE table[CHOOSE j \in hit : TRUE].n

(* C15.  The missing-tag table of the analysis counts each Finding once    *)
(* in the bucket of each of its missing tag names and in no other bucket:  *)
(* a Finding with k missing tags is in exactly k buckets, and the counts   *)
(* add up to the number of missing-tag entries of all Findings.            *)
C15_MissingTagBuckets ==
    analysis.pc = "done" =>
        LET table == analysis.missing_tag_counts
            names == {table[j].key : j \in DOMAIN table}
                     \cup UNION {Range(MissingOf(all_resources[i])) :
                                    i \in DOMAIN all_resources}
        IN  /\ \A name \in names :
                  CountOf(table, name) =
                      Cardinality({i \in DOMAIN all_resources :
                                      name \in Range(MissingOf(all_resources[i]))})
            /\ SumOfCounts(table) = MissingEntries(all_resources)

(* C16.  The by-kind table of the analysis gives for every kind present    *)
(* the number of Findings of that kind, in descending order of count, and  *)
(* kinds with equal counts in the order they first appear in the dataset;  *)
(* the rows of the dataset are left as they were read.                     *)
FirstRow(kind) ==
    CHOOSE i \in DOMAIN all_resources :
        /\ all_resources[i].Resource = kind
        /\ \A j \in 1..(i - 1) : all_resources[j].Resource # kind

C16_Table ==
    analysis.pc = "done" =>
        LET table == analysis.resource_counts
        IN  /\ {table[j].key : j \in DOMAIN table} =
                   {all_resources[i].Resource : i \in DOMAIN all_resources}
            /\ \A j, k \in DOMAIN table : table[j].key = table[k].key => j = k
            /\ \A j \in DOMAIN table :
                  table[j].n = Cardinality({i \in DOMAIN all_resources :
                                   all_resources[i].Resource = table[j].key})
            /\ \A j, k \in DOMAIN table : j < k =>
                  \/ table[j].n > table[k].n
                  \/ /\ table[j].n = table[k].n
                     /\ FirstRow(table[j].key) < FirstRow(table[k].key)
            /\ analysis.resources =
                   [i \in DOMAIN csvfile.rows |-> DictReaderRow(csvfile.rows[i])]

C16_DatasetUntouched ==
    analysis' # analysis => csvfile' = csvfile /\ all_resources' = all_resources

\* C16: counts per kind, descending, ties in first-appearance order, and
\* the dataset unchanged.
C16_KindTableSorted == []C16_Table /\ [][C16_DatasetUntouched]_vars

C16_Witness ==
    /\ analysis.pc = "done"
    /\ Len(analysis.resource_counts) = 2
    /\ analysis.resource_counts[1].n = 2
    /\ analysis.resource_counts[2].n = 1
    /\ FirstRow(analysis.resource_counts[2].key)
          < FirstRow(analysis.resource_counts[1].key)

(* C17.  Writing the rows and reading them back gives the same set of      *)
(* (Account, Region, Resource, ARN, Missing_Tags) rows, and splitting the  *)
(* Missing_Tags read back gives, for every Finding, the sequence of tag    *)
(* names that was joined.                                                  *)
C17_RoundTrip ==
    analysis.pc = "done" =>
        /\ Range(analysis.resources) = Range(all_resources)
        /\ Len(analysis.resources) = Len(all_resources)
        /\ \A i \in DOMAIN all_resources :
              missing_tags_of(analysis.resources[i]) = MissingOf(all_resources[i])

=============================================================================
